---- MODULE Spec2Model ----
(***************************************************************************)
(* A model of AllocUtil (AU.h, AU_Builders.c): the byte builder, the fixed *)
(* size builder, the variable size (aligned) builder and the stack         *)
(* allocator.                                                              *)
(*                                                                         *)
(* The integer world is scaled down: LONG_MAX is a small number, a memory  *)
(* cell stands for sizeof(long) bytes, memory blocks are sequences of      *)
(* cells and a pointer is a pair (block, offset).  The allocator           *)
(* (xmalloc, xrealloc) is an external capability: each call may fail or    *)
(* succeed, and a successful xrealloc may move the block.                  *)
(*                                                                         *)
(* The build is either a debug build (asserts compiled in, a failed assert *)
(* aborts the program) or an NDEBUG build (asserts compiled out).          *)
(***************************************************************************)
EXTENDS Integers, Sequences, FiniteSets, TLC

\* ---------------------------------------------------------------- bounds
\* The largest value of a long (scaled down from 2^63 - 1).
LONG_MAX == 7
\* Largest capacity a caller passes to a setup function.
MaxSetupCap == 2
\* Chunks of every content are appended up to this length; longer chunks
\* are filled with one value.
MaxVaried == 1
\* Number of calls a run makes on a builder after the setup call.
MaxCalls == 3
\* Number of calls a run makes on a stack allocator after the setup call.
MaxStackCalls == 4
\* Largest element size a caller passes to AU_FSB_Setup.
MaxEltSize == 3

\* ------------------------------------------------------------- constants
\* sizeof (union AlignmentType) and sizeof (long), in cells.
ALIGNMENT_BOUNDARY == 2
SizeofLong == 1

INT_MIN == 0 - (LONG_MAX + 1)
AU_ERR_XMALLOC  == INT_MIN
AU_ERR_XREALLOC == INT_MIN + 1
AU_ERR_XCALLOC  == INT_MIN + 2
AU_ERR_OVERFLOW == INT_MIN + 3

\* The content of a cell nobody has written yet.
Junk == 0
\* The values of the cells a caller appends.
DataBytes == {1, 2}
\* The addresses of the blocks the allocator hands out: a block that is
\* resized stays where it is or moves.
Bases == {1, 2}

NULL == [blk |-> 0, off |-> 0]
Ptr(b, o) == [blk |-> b, off |-> o]
\* An integer converted to a pointer.
RawPtr(v) == [blk |-> -1, off |-> v]

\* A frame of the stack allocator: the offset it starts at, the pointer
\* AU_SA_Alloc returned and the size asked for.
Frame(start, ptr, n) == [start |-> start, ptr |-> ptr, n |-> n]
NoFrame == Frame(0, NULL, 0)

VARIABLES
  ndebug,   \* TRUE: the build defines NDEBUG (asserts are compiled out)
  kind,     \* which setup function ran: "B1", "FSB", "VSB", "SA" ("": none)
  status,   \* "unset", "ready", "nomem" (setup failed), "aborted" (a failed
            \* assert), "crashed" (a trap), "destroyed"
  base,     \* b1->mem: the address of the block, 0 for a null pointer
  mem,      \* the cells of the block b1->mem points to
  used,     \* b1->used
  cap,      \* b1->cap
  elt_size, \* fsb->elt_size
  overrun,  \* TRUE once a write landed outside the block
  expect,   \* history: the cells appended and not discarded, in order
  journal,  \* history of a byte builder, kept when on is TRUE: log, the
            \* size and offset of each AU_B1_Append since the last
            \* AU_B1_DiscardAppends; pure, TRUE while nothing else changed
            \* used since then; prior, the log that AU_B1_DiscardAppends
            \* ended
  frames,   \* history: the live stack frames, oldest first
  freed,    \* history: the oldest frame the last AU_SA_Free released
  calls,    \* history: the number of calls made after setup
  ret       \* the last call: operation, arguments, result, fields before

vars == <<ndebug, kind, status, base, mem, used, cap, elt_size, overrun,
          expect, journal, frames, freed, calls, ret>>

\* ------------------------------------------------------------- helpers
Fill(n, v) == [i \in 1..n |-> v]

\* All sequences over S of length n.
RECURSIVE SeqsOfLen(_, _)
SeqsOfLen(S, n) ==
  IF n = 0 THEN {<<>>}
  ELSE {Append(s, x) : s \in SeqsOfLen(S, n - 1), x \in S}

\* The chunks a caller appends: every content up to MaxVaried cells, and a
\* one-valued chunk of every length a long can express.
Chunks ==
  UNION {SeqsOfLen(DataBytes, n) : n \in 0..MaxVaried}
    \cup {Fill(n, 1) : n \in 0..LONG_MAX}

\* The sizes a caller passes (a negative size breaks the caller's contract).
Sizes == 0..LONG_MAX

\* The capacities a caller passes to a setup function.
SetupCaps == 1..MaxSetupCap \cup {LONG_MAX}

\* What xmalloc and xrealloc return: 0 (null) or the address of a block.
AllocResults == {0} \cup Bases

\* size_t and long have the same width: a long holds -(LONG_MAX+1)..LONG_MAX,
\* a size_t 0..2*LONG_MAX+1.
Modulus == 2 * (LONG_MAX + 1)
ToUnsigned(x) == x % Modulus
ToSigned(x) == IF x % Modulus > LONG_MAX THEN (x % Modulus) - Modulus
               ELSE x % Modulus
SignedFits(x) == x >= 0 - (LONG_MAX + 1) /\ x <= LONG_MAX

\* What a long addition or subtraction that yields x does: it has its
\* value, or it does not fit a long, which is undefined: the program traps,
\* or the result wraps.
SumOutcomes(x) ==
  IF SignedFits(x) THEN {[how |-> "value", v |-> x]}
  ELSE {[how |-> "crash", v |-> 0], [how |-> "value", v |-> ToSigned(x)]}

\* The / of C on longs, which truncates toward zero (b > 0).
CDiv(a, b) == IF a >= 0 THEN a \div b ELSE 0 - ((0 - a) \div b)

\* xrealloc(p, n) on success: the first min(old, n) cells are preserved.
ReallocCells(m, n) == [i \in 1..n |-> IF i <= Len(m) THEN m[i] ELSE Junk]

\* memcpy(base + off, data, Len(data)) restricted to the cells of the block.
WriteCells(m, off, data) ==
  [i \in 1..Len(m) |->
     IF i > off /\ i <= off + Len(data) THEN data[i - off] ELSE m[i]]

\* TRUE when an access of n cells at offset off leaves the block m.
OutOfBlock(m, off, n) == n > 0 /\ (off < 0 \/ off + n > Len(m))

Pre == [used |-> used, cap |-> cap, base |-> base]

Call(op, n, res, val, ptr, err) ==
  [op |-> op, n |-> n, res |-> res, val |-> val, ptr |-> ptr, err |-> err,
   pre |-> Pre]

\* The caller makes one more call on a structure that is set up.
Ready(k) ==
  /\ kind = k
  /\ status = "ready"
  /\ calls < (IF k = "SA" THEN MaxStackCalls ELSE MaxCalls)

\* ASSERT_VALID_B1
ValidB1 == base # 0 /\ used <= cap /\ cap > 0

\* The call ends the program: abort() of a failed assert ("abort"), or a
\* trap of the undefined operation it ran into ("crash").
Stop(op, n, how) ==
  /\ status' = IF how = "abort" THEN "aborted" ELSE "crashed"
  /\ ret' = Call(op, n, how, 0, NULL, 0)
  /\ calls' = calls + 1
  /\ UNCHANGED <<ndebug, kind, base, mem, used, cap, elt_size, overrun,
                 expect, journal, frames, freed>>

\* ---------------------------------------------------------- BYTE builder
\* TRUE when AU_B1_AppendForSetup(b1, size) calls xrealloc.
CallsRealloc(size) ==
  /\ ~(used > ToUnsigned(ToSigned(LONG_MAX - size)))
  /\ ToUnsigned(used + size) > cap
  /\ cap # LONG_MAX

\* What xrealloc may return to AU_B1_AppendForSetup(b1, size).
ReallocResults(size) == IF CallsRealloc(size) THEN AllocResults ELSE {0}

\* AU_B1_AppendForSetup storing the new capacity before it looks at what
\* xrealloc returned.
AppendForSetupCapFirst(size, p) ==
  LET new_cap == IF cap > LONG_MAX \div 2 THEN LONG_MAX ELSE cap * 2
      Fail(e, c) == [res |-> "fail", err |-> e, used |-> used, cap |-> c,
                     mem |-> mem, base |-> base, addr |-> NULL]
  IN
  IF used > ToUnsigned(ToSigned(LONG_MAX - size))
  THEN Fail(AU_ERR_OVERFLOW, cap)
  ELSE IF ToUnsigned(used + size) > cap THEN
    IF cap = LONG_MAX THEN Fail(AU_ERR_OVERFLOW, cap)
    ELSE IF p = 0 THEN Fail(AU_ERR_XREALLOC, new_cap)
    ELSE [res |-> "ok", err |-> 0, used |-> ToUnsigned(used + size),
          cap |-> new_cap, mem |-> ReallocCells(mem, new_cap), base |-> p,
          addr |-> Ptr(p, used)]
  ELSE [res |-> "ok", err |-> 0, used |-> ToUnsigned(used + size),
        cap |-> cap, mem |-> mem, base |-> base, addr |-> Ptr(base, used)]

\* AU_B1_AppendForSetup growing the block to the size that is needed.
AppendForSetupExactFit(size, p) ==
  LET Fail(e) == [res |-> "fail", err |-> e, used |-> used, cap |-> cap,
                  mem |-> mem, base |-> base, addr |-> NULL]
      new_cap == ToUnsigned(used + size)
  IN
  IF used > ToUnsigned(ToSigned(LONG_MAX - size)) THEN Fail(AU_ERR_OVERFLOW)
  ELSE IF ToUnsigned(used + size) > cap THEN
    IF cap = LONG_MAX THEN Fail(AU_ERR_OVERFLOW)
    ELSE IF p = 0 THEN Fail(AU_ERR_XREALLOC)
    ELSE [res |-> "ok", err |-> 0, used |-> ToUnsigned(used + size),
          cap |-> new_cap, mem |-> ReallocCells(mem, new_cap), base |-> p,
          addr |-> Ptr(p, used)]
  ELSE [res |-> "ok", err |-> 0, used |-> ToUnsigned(used + size),
        cap |-> cap, mem |-> mem, base |-> base, addr |-> Ptr(base, used)]

\* The body of AU_B1_AppendForSetup after its asserts; p is what xrealloc
\* returns if it is called.  used and cap are size_t, size is a long.
AppendForSetup(size, p) ==
  LET Fail(e) == [res |-> "fail", err |-> e, used |-> used, cap |-> cap,
                  mem |-> mem, base |-> base, addr |-> NULL]
      new_cap == IF cap > LONG_MAX \div 2 THEN LONG_MAX ELSE cap * 2
  IN
  IF used > ToUnsigned(ToSigned(LONG_MAX - size)) THEN Fail(AU_ERR_OVERFLOW)
  ELSE IF ToUnsigned(used + size) > cap THEN
    IF cap = LONG_MAX THEN Fail(AU_ERR_OVERFLOW)
    ELSE IF p = 0 THEN Fail(AU_ERR_XREALLOC)
    ELSE [res |-> "ok", err |-> 0, used |-> ToUnsigned(used + size),
          cap |-> new_cap, mem |-> ReallocCells(mem, new_cap), base |-> p,
          addr |-> Ptr(p, used)]
  ELSE [res |-> "ok", err |-> 0, used |-> ToUnsigned(used + size),
        cap |-> cap, mem |-> mem, base |-> base, addr |-> Ptr(base, used)]

\* The body of AU_B1_Setup(b1, c): the fields after xmalloc returned p.
SetupFields(k, c, p) ==
  /\ kind' = k
  /\ cap' = ToUnsigned(c)
  /\ used' = 0
  /\ base' = p
  /\ mem' = IF p = 0 THEN <<>> ELSE Fill(ToUnsigned(c), Junk)
  /\ status' = IF p = 0 THEN "nomem" ELSE "ready"

\* A call of AU_B1_Setup(b1, c) for the op of a caller, whose argument was n.
Setup(k, op, n, c, p) ==
  /\ SetupFields(k, c, p)
  /\ ret' = IF p = 0
            THEN Call(op, n, "fail", AU_ERR_XMALLOC, NULL, AU_ERR_XMALLOC)
            ELSE Call(op, n, "ok", 0, NULL, 0)
  /\ UNCHANGED <<ndebug, elt_size, overrun, expect, journal, frames, freed,
                 calls>>

B1_Setup ==
  /\ status = "unset"
  /\ \E c \in SetupCaps, p \in AllocResults : Setup("B1", "B1_Setup", c, c, p)

\* AU_B1_Append(b1, mem, size) behind its asserts, for the op of a caller
\* whose argument was n: data is the cells memcpy copies from mem, and the
\* caller asserts that div divides the offset and returns the quotient.  The
\* memcpy of cells that lie outside the block is undefined: the cells are
\* lost, or the program traps.
AppendBytes(op, n, size, data, p, div) ==
  LET r == AppendForSetup(size, p) IN
  IF r.res = "fail"
  THEN /\ used' = r.used
       /\ cap' = r.cap
       /\ base' = r.base
       /\ mem' = r.mem
       /\ ret' = Call(op, n, "fail", -1, NULL, r.err)
       /\ calls' = calls + 1
       /\ UNCHANGED <<ndebug, kind, status, elt_size, overrun, expect, journal,
                      frames, freed>>
  ELSE /\ used' = r.used
       /\ cap' = r.cap
       /\ base' = r.base
       /\ mem' = WriteCells(r.mem, used, data)
       /\ overrun' = (overrun \/ OutOfBlock(r.mem, used, Len(data)))
       /\ expect' = IF kind = "B1" THEN expect \o data ELSE expect
       /\ journal' = IF kind = "B1" /\ journal.on
                     THEN [journal EXCEPT
                             !.log = Append(@, [n |-> size, off |-> used])]
                     ELSE journal
       /\ calls' = calls + 1
       /\ \/ /\ ndebug \/ used % div = 0
             /\ status' = status
             /\ ret' = Call(op, n, "ok", used \div div, NULL, 0)
          \/ /\ ~ndebug /\ used % div # 0
             /\ status' = "aborted"
             /\ ret' = Call(op, n, "abort", 0, NULL, 0)
          \/ /\ OutOfBlock(r.mem, used, Len(data))
             /\ status' = "crashed"
             /\ ret' = Call(op, n, "crash", 0, NULL, 0)
       /\ UNCHANGED <<ndebug, kind, elt_size, frames, freed>>

\* AU_B1_Append(b1, mem, size) with its asserts.  LONG_MAX - size is a long
\* subtraction, which is undefined for a size below 0: the program traps, or
\* the difference wraps.
AU_B1_Append(op, n, size, data, div) ==
  IF ~ndebug /\ (~ValidB1 \/ size < 0) THEN Stop(op, n, "abort")
  ELSE \E d \in SumOutcomes(LONG_MAX - size) :
         IF d.how # "value" THEN Stop(op, n, d.how)
         ELSE \E p \in ReallocResults(size) :
                AppendBytes(op, n, size, data, p, div)

\* AU_B1_AppendForSetup(b1, size) behind its asserts, for the op of a caller
\* whose argument was n.  The cells handed out hold what the block held.
Reserve(op, n, size, p) ==
  LET r == AppendForSetup(size, p) IN
  /\ used' = r.used
  /\ cap' = r.cap
  /\ base' = r.base
  /\ mem' = r.mem
  /\ expect' = IF r.res = "ok" /\ kind = "B1"
               THEN expect \o [i \in 1..size |->
                                 IF used + i <= Len(r.mem)
                                 THEN r.mem[used + i] ELSE Junk]
               ELSE expect
  /\ journal' = IF r.res = "ok" /\ kind = "B1" /\ journal.on /\ size > 0
                THEN [journal EXCEPT !.pure = FALSE, !.prior = <<>>]
                ELSE journal
  /\ ret' = Call(op, n, r.res, 0, r.addr, r.err)
  /\ calls' = calls + 1
  /\ UNCHANGED <<ndebug, kind, status, elt_size, overrun, frames, freed>>

\* AU_B1_AppendForSetup(b1, size) with its asserts.
AU_B1_AppendForSetup(op, n, size) ==
  IF ~ndebug /\ (~ValidB1 \/ size < 0) THEN Stop(op, n, "abort")
  ELSE \E d \in SumOutcomes(LONG_MAX - size) :
         IF d.how # "value" THEN Stop(op, n, d.how)
         ELSE \E p \in ReallocResults(size) : Reserve(op, n, size, p)

B1_Append ==
  /\ Ready("B1")
  /\ \E data \in Chunks :
       AU_B1_Append("B1_Append", Len(data), Len(data), data, 1)

B1_AppendForSetup ==
  /\ Ready("B1")
  /\ \E size \in Sizes : AU_B1_AppendForSetup("B1_AppendForSetup", size, size)

\* AU_B1_GetMemory
AU_B1_GetMemory(op) ==
  IF ~ndebug /\ ~ValidB1 THEN Stop(op, 0, "abort")
  ELSE /\ ret' = Call(op, 0, "ok", 0, Ptr(base, 0), 0)
       /\ calls' = calls + 1
       /\ UNCHANGED <<ndebug, kind, status, base, mem, used, cap, elt_size,
                      overrun, expect, journal, frames, freed>>

B1_GetMemory == Ready("B1") /\ AU_B1_GetMemory("B1_GetMemory")

\* AU_B1_DiscardAppends
AU_B1_DiscardAppends(op) ==
  IF ~ndebug /\ ~ValidB1 THEN Stop(op, 0, "abort")
  ELSE /\ used' = 0
       /\ expect' = <<>>
       /\ journal' = IF kind = "B1" /\ journal.on
                     THEN [journal EXCEPT
                             !.log = <<>>, !.pure = TRUE,
                             !.prior = IF journal.pure THEN journal.log
                                       ELSE <<>>]
                     ELSE journal
       /\ ret' = Call(op, 0, "ok", 0, NULL, 0)
       /\ calls' = calls + 1
       /\ UNCHANGED <<ndebug, kind, status, base, mem, cap, elt_size,
                      overrun, frames, freed>>

B1_DiscardAppends == Ready("B1") /\ AU_B1_DiscardAppends("B1_DiscardAppends")

\* AU_B1_DiscardLastBytes giving the discarded cells back to the allocator.
DiscardLastBytesShrinking(op, n, size) ==
  IF ~ndebug /\ ~ValidB1 THEN Stop(op, n, "abort")
  ELSE /\ used' = used - size
       /\ cap' = IF used - size > 0 THEN used - size ELSE 1
       /\ mem' = ReallocCells(mem, cap')
       /\ ret' = Call(op, n, "ok", 0, NULL, 0)
       /\ calls' = calls + 1
       /\ UNCHANGED <<ndebug, kind, status, base, elt_size, overrun, expect,
                      journal, frames, freed>>

\* AU_B1_DiscardLastBytes(b1, size), for the op of a caller whose argument
\* was n; the caller keeps size <= used.
AU_B1_DiscardLastBytes(op, n, size) ==
  IF ~ndebug /\ ~ValidB1 THEN Stop(op, n, "abort")
  ELSE /\ used' = used - size
       /\ expect' = IF kind = "B1"
                    THEN SubSeq(expect, 1, Len(expect) - size) ELSE expect
       /\ journal' = IF kind = "B1" /\ journal.on /\ size > 0
                     THEN [journal EXCEPT !.pure = FALSE, !.prior = <<>>]
                     ELSE journal
       /\ ret' = Call(op, n, "ok", 0, NULL, 0)
       /\ calls' = calls + 1
       /\ UNCHANGED <<ndebug, kind, status, base, mem, cap, elt_size,
                      overrun, frames, freed>>

B1_DiscardLastBytes ==
  /\ Ready("B1")
  /\ \E n \in 0..used : AU_B1_DiscardLastBytes("B1_DiscardLastBytes", n, n)

\* ---------------------------------------------------- Fixed Size Builder
\* ASSERT_VALID_FSB
ValidFSB == elt_size > 0 /\ elt_size <= LONG_MAX \div cap /\ ValidB1

\* n*fsb->elt_size for an element count taken for a byte count.
ElementBytesNoStride(n) == n

\* n*fsb->elt_size
ElementBytes(n) == n * elt_size

\* The check of AU_FSB_Append and AU_FSB_AppendForSetup before they multiply.
CountOverflows(n) == n # 0 /\ elt_size > LONG_MAX \div n

\* AU_FSB_Setup(fsb, e, c); the caller keeps c <= LONG_MAX/e.  The debug
\* build ends with ASSERT_VALID_FSB.
FSB_Setup ==
  /\ status = "unset"
  /\ \E e \in 1..MaxEltSize, c \in SetupCaps, p \in AllocResults :
       /\ c <= LONG_MAX \div e
       /\ kind' = "FSB"
       /\ cap' = e * c
       /\ used' = 0
       /\ base' = p
       /\ mem' = IF p = 0 THEN <<>> ELSE Fill(e * c, Junk)
       /\ elt_size' = IF p = 0 THEN elt_size ELSE e
       /\ IF p = 0
          THEN /\ status' = "nomem"
               /\ ret' = Call("FSB_Setup", c, "fail", AU_ERR_XMALLOC, NULL,
                              AU_ERR_XMALLOC)
          ELSE IF ~ndebug /\ ~(e <= LONG_MAX \div (e * c))
          THEN /\ status' = "aborted"
               /\ ret' = Call("FSB_Setup", c, "abort", 0, NULL, 0)
          ELSE /\ status' = "ready"
               /\ ret' = Call("FSB_Setup", c, "ok", 0, NULL, 0)
  /\ UNCHANGED <<ndebug, overrun, expect, journal, frames, freed, calls>>

\* The overflow return of AU_FSB_Append (v: AU_ERR_OVERFLOW) and of
\* AU_FSB_AppendForSetup (v: AU_ERR_OVERFLOW converted to a pointer).
CountOverflow(op, n, val, ptr) ==
  /\ ret' = Call(op, n, "fail", val, ptr, AU_ERR_OVERFLOW)
  /\ calls' = calls + 1
  /\ UNCHANGED <<ndebug, kind, status, base, mem, used, cap, elt_size,
                 overrun, expect, journal, frames, freed>>

\* AU_FSB_Append(fsb, mem, n): data is the n elements at mem.
FSB_Append ==
  /\ Ready("FSB")
  /\ \E n \in Sizes :
       IF ~ndebug /\ ~ValidFSB THEN Stop("FSB_Append", n, "abort")
       ELSE IF CountOverflows(n)
       THEN CountOverflow("FSB_Append", n, AU_ERR_OVERFLOW, NULL)
       ELSE \E data \in Chunks :
              /\ Len(data) = ElementBytes(n)
              /\ AU_B1_Append("FSB_Append", n, ElementBytes(n), data,
                              elt_size)

\* AU_FSB_AppendForSetup(fsb, n)
FSB_AppendForSetup ==
  /\ Ready("FSB")
  /\ \E n \in Sizes :
       IF ~ndebug /\ ~ValidFSB THEN Stop("FSB_AppendForSetup", n, "abort")
       ELSE IF CountOverflows(n)
       THEN CountOverflow("FSB_AppendForSetup", n, 0, RawPtr(AU_ERR_OVERFLOW))
       ELSE AU_B1_AppendForSetup("FSB_AppendForSetup", n, ElementBytes(n))

\* AU_FSB_GetMemory
FSB_GetMemory ==
  /\ Ready("FSB")
  /\ IF ~ndebug /\ ~ValidFSB THEN Stop("FSB_GetMemory", 0, "abort")
     ELSE AU_B1_GetMemory("FSB_GetMemory")

\* AU_FSB_DiscardAppends
FSB_DiscardAppends ==
  /\ Ready("FSB")
  /\ IF ~ndebug /\ ~ValidFSB THEN Stop("FSB_DiscardAppends", 0, "abort")
     ELSE AU_B1_DiscardAppends("FSB_DiscardAppends")

\* AU_FSB_DiscardLastAppends(fsb, n); the caller keeps n <= used/elt_size.
FSB_DiscardLastAppends ==
  /\ Ready("FSB")
  /\ \E n \in 0..(used \div elt_size) :
       IF ~ndebug /\ ~ValidFSB THEN Stop("FSB_DiscardLastAppends", n, "abort")
       ELSE AU_B1_DiscardLastBytes("FSB_DiscardLastAppends", n,
                                   ElementBytes(n))

\* ------------------------------------------------- Variable Size Builder
\* The assert of Align(n).
AlignAsserted(n) == n <= LONG_MAX - ALIGNMENT_BOUNDARY + 1

\* Align without the multiplication.
AlignNoMultiply(n) ==
  CDiv(ToSigned(n + ALIGNMENT_BOUNDARY - 1), ALIGNMENT_BOUNDARY)

\* The value Align(n) returns; n + ALIGNMENT_BOUNDARY - 1 wraps around when
\* it does not fit a long.
Align(n) ==
  CDiv(ToSigned(n + ALIGNMENT_BOUNDARY - 1), ALIGNMENT_BOUNDARY)
    * ALIGNMENT_BOUNDARY

\* What a call of Align(n) does: a debug build aborts when the assert fails,
\* an NDEBUG build adds.
AlignOutcomes(n) ==
  IF ~ndebug /\ ~AlignAsserted(n) THEN {[how |-> "abort", v |-> 0]}
  ELSE {[how |-> o.how, v |-> IF o.how = "value" THEN Align(n) ELSE 0] :
          o \in SumOutcomes(n + ALIGNMENT_BOUNDARY - 1)}

\* The cells memcpy reads at a caller's buffer of Len(data) cells when it is
\* asked for size cells: past the buffer it reads what happens to follow it.
Overread(data, size, v) ==
  [i \in 1..ToUnsigned(size) |-> IF i <= Len(data) THEN data[i] ELSE v]

\* AU_VSB_Setup(vsb, c) for the op of a caller, on a structure of kind k.
AU_VSB_Setup(k, op, c) ==
  \E a \in AlignOutcomes(c) :
    IF a.how # "value"
    THEN /\ status' = IF a.how = "abort" THEN "aborted" ELSE "crashed"
         /\ kind' = k
         /\ ret' = Call(op, c, a.how, 0, NULL, 0)
         /\ UNCHANGED <<ndebug, base, mem, used, cap, elt_size, overrun,
                        expect, journal, frames, freed, calls>>
    ELSE IF ~ndebug /\ ~(a.v > 0)
    THEN /\ status' = "aborted"
         /\ kind' = k
         /\ ret' = Call(op, c, "abort", 0, NULL, 0)
         /\ UNCHANGED <<ndebug, base, mem, used, cap, elt_size, overrun,
                        expect, journal, frames, freed, calls>>
    ELSE \E p \in AllocResults : Setup(k, op, c, a.v, p)

VSB_Setup ==
  /\ status = "unset"
  /\ \E c \in SetupCaps : AU_VSB_Setup("VSB", "VSB_Setup", c)

\* What may follow a caller's buffer of n cells, if memcpy reads past it.
OverreadValues(n, size) ==
  IF ToUnsigned(size) > n THEN {Junk} \cup DataBytes ELSE {Junk}

\* AU_VSB_Append(vsb, mem, n): data is the n cells at mem.
VSB_Append ==
  /\ Ready("VSB")
  /\ \E data \in Chunks :
       \E a \in AlignOutcomes(Len(data)) :
         IF a.how # "value" THEN Stop("VSB_Append", Len(data), a.how)
         ELSE \E v \in OverreadValues(Len(data), a.v) :
                AU_B1_Append("VSB_Append", Len(data), a.v,
                             Overread(data, a.v, v), 1)

\* AU_VSB_AppendForSetup(vsb, n) for the op of a caller whose argument was m.
AU_VSB_AppendForSetup(op, m, n) ==
  \E a \in AlignOutcomes(n) :
    IF a.how # "value" THEN Stop(op, m, a.how)
    ELSE AU_B1_AppendForSetup(op, m, a.v)

VSB_AppendForSetup ==
  /\ Ready("VSB")
  /\ \E n \in Sizes : AU_VSB_AppendForSetup("VSB_AppendForSetup", n, n)

\* AU_VSB_GetMemory
VSB_GetMemory == Ready("VSB") /\ AU_B1_GetMemory("VSB_GetMemory")

\* AU_VSB_DiscardAppends
VSB_DiscardAppends ==
  Ready("VSB") /\ AU_B1_DiscardAppends("VSB_DiscardAppends")

\* -------------------------------------------------------- Stack Allocator
\* AU_SA_Setup(sa, c)
SA_Setup ==
  /\ status = "unset"
  /\ \E c \in SetupCaps : AU_VSB_Setup("SA", "SA_Setup", c)

\* The values a read outside the block may yield.
Garbage == 0..LONG_MAX

\* The tail of AU_SA_Alloc(sa, n) once n_align and the sum are computed:
\* AU_VSB_AppendForSetup(sa, total), then the store of where_now behind the
\* payload.  A store outside the block is undefined: it is lost, or the
\* program traps.
AllocFrame(n, n_align, total, p) ==
  LET r == AppendForSetup(total, p)
      where_now == ToSigned(used)
      at == used + n_align
  IN
  IF r.res = "fail"
  THEN /\ ret' = Call("SA_Alloc", n, "fail", 0, NULL, r.err)
       /\ calls' = calls + 1
       /\ UNCHANGED <<ndebug, kind, status, base, mem, used, cap, elt_size,
                      overrun, expect, journal, frames, freed>>
  ELSE /\ used' = r.used
       /\ cap' = r.cap
       /\ base' = r.base
       /\ mem' = WriteCells(r.mem, at, <<where_now>>)
       /\ overrun' = (overrun \/ OutOfBlock(r.mem, at, SizeofLong))
       /\ frames' = Append(frames, Frame(used, r.addr, n))
       /\ calls' = calls + 1
       /\ \/ /\ status' = status
             /\ ret' = Call("SA_Alloc", n, "ok", 0, r.addr, 0)
          \/ /\ OutOfBlock(r.mem, at, SizeofLong)
             /\ status' = "crashed"
             /\ ret' = Call("SA_Alloc", n, "crash", 0, NULL, 0)
       /\ UNCHANGED <<ndebug, kind, elt_size, expect, journal, freed>>

\* AU_SA_Alloc(sa, n)
SA_Alloc ==
  /\ Ready("SA")
  /\ \E n \in Sizes :
       \E a \in AlignOutcomes(n) :
         IF a.how # "value" THEN Stop("SA_Alloc", n, a.how)
         ELSE \E t \in SumOutcomes(a.v + Align(SizeofLong)) :
           IF t.how # "value" THEN Stop("SA_Alloc", n, t.how)
           ELSE \E b \in AlignOutcomes(t.v) :
             IF b.how # "value" THEN Stop("SA_Alloc", n, b.how)
             ELSE IF ~ndebug /\ (~ValidB1 \/ b.v < 0)
             THEN Stop("SA_Alloc", n, "abort")
             ELSE \E d \in SumOutcomes(LONG_MAX - b.v) :
               IF d.how # "value" THEN Stop("SA_Alloc", n, d.how)
               ELSE \E p \in ReallocResults(b.v) :
                      AllocFrame(n, a.v, b.v, p)

\* The loop of AU_SA_Free from the offset at with k frames to go: the
\* offsets it may end at.  A read outside the block is undefined: it yields
\* some value, or the program traps.
RECURSIVE FreeOutcomes(_, _)
FreeOutcomes(at, k) ==
  IF k = 0 THEN {[how |-> "value", v |-> at]}
  ELSE LET slot == at - Align(SizeofLong) IN
       IF OutOfBlock(mem, slot, SizeofLong)
       THEN {[how |-> "crash", v |-> 0]}
              \cup UNION {FreeOutcomes(g, k - 1) : g \in Garbage}
       ELSE FreeOutcomes(mem[slot + 1], k - 1)

\* AU_SA_Free(sa, k); the caller keeps k at most the number of live frames.
SA_Free ==
  /\ Ready("SA")
  /\ \E k \in 0..Len(frames) :
       \E o \in FreeOutcomes(used, k) :
         IF o.how # "value" THEN Stop("SA_Free", k, o.how)
         ELSE /\ used' = ToUnsigned(o.v)
              /\ frames' = SubSeq(frames, 1, Len(frames) - k)
              /\ freed' = IF k = 0 THEN freed
                          ELSE frames[Len(frames) - k + 1]
              /\ ret' = Call("SA_Free", k, "ok", 0, NULL, 0)
              /\ calls' = calls + 1
              /\ UNCHANGED <<ndebug, kind, status, base, mem, cap, elt_size,
                             overrun, expect, journal>>

\* AU_SA_Destroy(sa): the block is released, sa->mem still holds its address.
SA_Destroy ==
  /\ Ready("SA")
  /\ status' = "destroyed"
  /\ mem' = <<>>
  /\ ret' = Call("SA_Destroy", 0, "ok", 0, NULL, 0)
  /\ calls' = calls + 1
  /\ UNCHANGED <<ndebug, kind, base, used, cap, elt_size, overrun, expect,
                 journal, frames, freed>>

\* ---------------------------------------------------------- specifications
\* The fields every specification starts with; j: the journal is kept.
Fresh(j) ==
  /\ ndebug \in BOOLEAN
  /\ kind = ""
  /\ status = "unset"
  /\ base = 0
  /\ mem = <<>>
  /\ used = 0
  /\ cap = 0
  /\ elt_size = 0
  /\ overrun = FALSE
  /\ expect = <<>>
  /\ journal = [on |-> j, log |-> <<>>, pure |-> TRUE, prior |-> <<>>]
  /\ frames = <<>>
  /\ freed = NoFrame
  /\ calls = 0
  /\ ret = Call("none", 0, "ok", 0, NULL, 0)

Init == Fresh(FALSE)

InitJournal == Fresh(TRUE)

Next ==
  \/ B1_Setup
  \/ B1_Append
  \/ B1_AppendForSetup
  \/ B1_GetMemory
  \/ B1_DiscardAppends
  \/ B1_DiscardLastBytes

\* The byte builder.
Spec == Init /\ [][Next]_vars

\* The byte builder with the journal of its appends.
SpecJournal == InitJournal /\ [][Next]_vars

NextFSB ==
  \/ FSB_Setup
  \/ FSB_Append
  \/ FSB_AppendForSetup
  \/ FSB_GetMemory
  \/ FSB_DiscardAppends
  \/ FSB_DiscardLastAppends

\* The fixed size builder.
SpecFSB == Init /\ [][NextFSB]_vars

NextVSB ==
  \/ VSB_Setup
  \/ VSB_Append
  \/ VSB_AppendForSetup
  \/ VSB_GetMemory
  \/ VSB_DiscardAppends

\* The variable size builder.
SpecVSB == Init /\ [][NextVSB]_vars

NextSA ==
  \/ SA_Setup
  \/ SA_Alloc
  \/ SA_Free
  \/ SA_Destroy

\* The stack allocator.
SpecSA == Init /\ [][NextSA]_vars

\* ------------------------------------------------------------ properties
SetUp == status \in {"ready", "aborted", "crashed"}

B1Appends == {"B1_Append", "B1_AppendForSetup"}

\* TRUE when c is what doubling (clamped to LONG_MAX) makes of c0 in some
\* number of steps, stopping as soon as need cells fit.
RECURSIVE DoubledUntil(_, _, _)
DoubledUntil(c0, need, c) ==
  IF c0 >= need \/ c0 = LONG_MAX THEN c = c0
  ELSE DoubledUntil(IF c0 > LONG_MAX \div 2 THEN LONG_MAX ELSE c0 * 2, need, c)

\* C1: a byte builder that is set up has a block, cap > 0 and
\* 0 <= used <= cap, whatever was appended and discarded.
C1_ByteArenaInvariant ==
  (kind = "B1" /\ SetUp) => (base # 0 /\ cap > 0 /\ 0 <= used /\ used <= cap)

\* C2: an append that succeeds with used + size > cap leaves cap doubled (or
\* clamped) as often as needed: the new cap holds the new used, which is the
\* old used plus size.
C2_GrowthCorrect ==
  (kind = "B1" /\ ret.op \in B1Appends /\ ret.res = "ok"
     /\ ret.pre.used + ret.n > ret.pre.cap)
  => /\ used = ret.pre.used + ret.n
     /\ cap >= used
     /\ DoubledUntil(ret.pre.cap, used, cap)

\* C3: after a successful AU_B1_Append the offset returned is the number of
\* cells appended before it, and cells [0, used) of the block are the chunks
\* appended so far, in order.
C3_ConcatenationWithoutGaps ==
  (kind = "B1" /\ ret.op = "B1_Append" /\ ret.res = "ok")
  => /\ ret.val = Len(expect) - ret.n
     /\ used = Len(expect)
     /\ \A i \in 1..used : i <= Len(mem) /\ mem[i] = expect[i]

\* C4: a byte builder append that fails leaves used, cap, the block address
\* and the cells of the block as they were, and the builder ready for the
\* next call.
C4_FailureAtomic ==
  [][(ret'.op \in B1Appends /\ ret'.res = "fail")
       => (used' = used /\ cap' = cap /\ base' = base /\ mem' = mem
           /\ status' = "ready" /\ (ValidB1 => ValidB1'))]_vars

\* A resize failed on a builder that holds cells.
C4_Witness ==
  /\ ret.op \in B1Appends
  /\ ret.res = "fail"
  /\ ret.err = AU_ERR_XREALLOC
  /\ used > 0

\* C5: an append of size 0 succeeds in every state, changes neither used nor
\* cap and yields used as its offset.
C5_ZeroSizeAppend ==
  (kind = "B1" /\ ret.op \in B1Appends /\ ret.n = 0)
  => /\ ret.res = "ok"
     /\ used = ret.pre.used
     /\ cap = ret.pre.cap
     /\ (ret.op = "B1_Append" => ret.val = used)
     /\ (ret.op = "B1_AppendForSetup" => ret.ptr = Ptr(base, used))

\* C6: AU_SA_Free(sa, k) with k >= 1 sets used to the value it had just
\* before the k-th most recent live AU_SA_Alloc.
C6_LifoFrameRewind ==
  [][(ret'.op = "SA_Free" /\ ret'.res = "ok" /\ ret'.n >= 1)
       => used' = frames[Len(frames) - ret'.n + 1].start]_vars

\* C7: in the run alloc(x), alloc(y), free(1), alloc(z) with z <= y and every
\* alloc succeeding, the third alloc returns the pointer the second returned.
C7_SpaceReclaimed ==
  [][(calls = 3 /\ ret.op = "SA_Free" /\ ret.res = "ok" /\ ret.n = 1
        /\ Len(frames) = 1
        /\ ret'.op = "SA_Alloc" /\ ret'.res = "ok" /\ ret'.n <= freed.n)
       => ret'.ptr = freed.ptr]_vars

VSBAppends == {"VSB_Append", "VSB_AppendForSetup"}

\* C8: used of a variable size builder is a multiple of ALIGNMENT_BOUNDARY,
\* and so is the offset of every region an append hands out.
C8_Aligned ==
  (kind = "VSB" /\ SetUp)
  => /\ used % ALIGNMENT_BOUNDARY = 0
     /\ (ret.op = "VSB_Append" /\ ret.res = "ok")
          => ret.val % ALIGNMENT_BOUNDARY = 0
     /\ (ret.op = "VSB_AppendForSetup" /\ ret.res = "ok")
          => ret.ptr.off % ALIGNMENT_BOUNDARY = 0

\* An append of a size that is not a multiple of the boundary was followed
\* by an append that succeeded.
C8_Witness ==
  /\ kind = "VSB"
  /\ ret.op \in VSBAppends
  /\ ret.res = "ok"
  /\ ret.pre.used > 0
  /\ ret.n % ALIGNMENT_BOUNDARY # 0
  /\ status = "ready"

\* C9: a variable size builder call whose size is too large to round up
\* returns an overflow error and leaves the builder as it was.
C9_RoundingOverflowReported ==
  (ret.op \in VSBAppends \cup {"VSB_Setup"} /\ ~AlignAsserted(ret.n))
  => /\ ret.res = "fail"
     /\ ret.err = AU_ERR_OVERFLOW
     /\ used = ret.pre.used
     /\ cap = ret.pre.cap
     /\ base = ret.pre.base
     /\ status = IF ret.op = "VSB_Setup" THEN "unset" ELSE "ready"

FSBAppends == {"FSB_Append", "FSB_AppendForSetup"}

\* C11: AU_FSB_Append and AU_FSB_AppendForSetup with a count above
\* LONG_MAX / elt_size are rejected as an overflow: used, cap, the block and
\* its cells stay as they were, AU_FSB_Append returns the (negative) error
\* code and AU_FSB_AppendForSetup returns no non-null pointer.
C11_CountOverflowRejected ==
  [][(ret'.op \in FSBAppends /\ ret'.n > LONG_MAX \div elt_size)
       => /\ ret'.res = "fail"
          /\ ret'.err = AU_ERR_OVERFLOW
          /\ used' = used /\ cap' = cap /\ base' = base /\ mem' = mem
          /\ (ret'.op = "FSB_Append" => ret'.val = AU_ERR_OVERFLOW)
          /\ (ret'.op = "FSB_AppendForSetup" => ret'.ptr = NULL)]_vars

\* C12: the value a failed call returns is the error that occurred:
\* AU_B1_Setup returns AU_ERR_XMALLOC when xmalloc fails, and AU_B1_Append
\* returns AU_ERR_OVERFLOW when used + size exceeds LONG_MAX or cap is
\* LONG_MAX already, and AU_ERR_XREALLOC when xrealloc fails.
C12_ErrorCodeReturned ==
  /\ (ret.op = "B1_Setup" /\ ret.res = "fail") => ret.val = AU_ERR_XMALLOC
  /\ (ret.op = "B1_Append" /\ ret.res = "fail")
       => ret.val = IF ret.pre.used + ret.n > LONG_MAX
                       \/ ret.pre.cap = LONG_MAX
                    THEN AU_ERR_OVERFLOW ELSE AU_ERR_XREALLOC

\* n rounded up to a multiple of ALIGNMENT_BOUNDARY, in unbounded integers.
RoundedUp(n) ==
  ((n + ALIGNMENT_BOUNDARY - 1) \div ALIGNMENT_BOUNDARY) * ALIGNMENT_BOUNDARY

\* The cells AU_SA_Alloc(sa, n) asks for, in unbounded integers.
FrameCells(n) == RoundedUp(n) + RoundedUp(SizeofLong)

\* C13: no stored value exceeds LONG_MAX, and an AU_SA_Alloc(sa, n) in which
\* a step (n + ALIGNMENT_BOUNDARY - 1, Align(n) + Align(sizeof(long)),
\* used + size) would exceed LONG_MAX, or which needs more cells with cap at
\* LONG_MAX, fails with AU_ERR_OVERFLOW.
C13_NoWrappingArithmetic ==
  /\ used <= LONG_MAX
  /\ cap <= LONG_MAX
  /\ (ret.op = "SA_Alloc"
        /\ \/ ret.n + ALIGNMENT_BOUNDARY - 1 > LONG_MAX
           \/ FrameCells(ret.n) > LONG_MAX
           \/ ret.pre.used + FrameCells(ret.n) > LONG_MAX
           \/ (ret.pre.cap = LONG_MAX
                 /\ ret.pre.used + FrameCells(ret.n) > ret.pre.cap))
       => (ret.res = "fail" /\ ret.err = AU_ERR_OVERFLOW)

\* TRUE while the appends since the last AU_B1_DiscardAppends repeat the
\* appends before it and one more is due.
Replaying ==
  /\ kind = "B1"
  /\ journal.on
  /\ journal.pure
  /\ Len(journal.log) < Len(journal.prior)
  /\ \A i \in 1..Len(journal.log) : journal.log[i] = journal.prior[i]

\* C14: AU_B1_DiscardAppends on a builder filled by successful appends sets
\* used to 0 and keeps cap and the block; an append that then repeats the
\* next chunk of the discarded sequence succeeds, at the offset it had the
\* first time, with cap and the block unchanged.
C14_DiscardAndReplay ==
  [][/\ (kind = "B1" /\ journal.on /\ journal.pure /\ journal.log # <<>>
           /\ ret'.op = "B1_DiscardAppends")
          => (ret'.res = "ok" /\ used' = 0 /\ cap' = cap /\ base' = base)
     /\ (Replaying /\ ret'.op = "B1_Append"
           /\ ret'.n = journal.prior[Len(journal.log) + 1].n)
          => /\ ret'.res = "ok"
             /\ ret'.val = journal.prior[Len(journal.log) + 1].off
             /\ cap' = cap
             /\ base' = base]_vars

Discards ==
  {"B1_DiscardAppends", "B1_DiscardLastBytes", "FSB_DiscardAppends",
   "FSB_DiscardLastAppends", "VSB_DiscardAppends", "SA_Free"}

CountedDiscards == {"B1_DiscardLastBytes", "FSB_DiscardLastAppends", "SA_Free"}

\* The count that unwinds everything: used of a byte builder, the number of
\* elements of a fixed size builder, the number of live frames of a stack
\* allocator.
LiveCount ==
  IF kind = "B1" THEN used
  ELSE IF kind = "FSB" THEN used \div elt_size
  ELSE Len(frames)

\* C16: AU_B1_DiscardLastBytes(b1, used), AU_FSB_DiscardLastAppends with the
\* number of elements appended and AU_SA_Free with the number of live frames
\* leave used = 0.
C16_FullUnwindReachesEmpty ==
  [][(ret'.op \in CountedDiscards /\ ret'.n = LiveCount)
       => (ret'.res = "ok" /\ used' = 0)]_vars

\* C17: a call that hands out cells and finds used + size <= cap leaves cap
\* and the address of the block as they were; the address changes only in a
\* successful call that grows the block, and then every offset below used
\* designates a cell that holds what it held before.
C17_PointerStability ==
  [][/\ (ret'.op \in B1Appends /\ used + ret'.n <= cap)
          => (cap' = cap /\ base' = base)
     /\ (kind = "B1" /\ base' # base)
          => /\ ret'.op \in B1Appends
             /\ ret'.res = "ok"
             /\ used + ret'.n > cap
             /\ \A i \in 1..used : i <= Len(mem) /\ mem'[i] = mem[i]]_vars

\* C18: a successful AU_SA_Alloc(sa, n) from used = start adds
\* Align(n) + Align(sizeof(long)) to used, returns the address of offset
\* start, and the cell at offset start + Align(n), the last
\* Align(sizeof(long)) cells below the new used, holds start; the payload
\* and the marker lie below cap, inside the block.
C18_FrameLayout ==
  (kind = "SA" /\ ret.op = "SA_Alloc" /\ ret.res = "ok")
  => LET start == ret.pre.used
         slot == start + RoundedUp(ret.n)
     IN /\ used = start + FrameCells(ret.n)
        /\ ret.ptr = Ptr(base, start)
        /\ slot = used - RoundedUp(SizeofLong)
        /\ slot + SizeofLong <= cap
        /\ slot + SizeofLong <= Len(mem)
        /\ mem[slot + 1] = start

\* TRUE when the chain of markers from offset at leads through the starts of
\* frames k, k - 1, ..., 1, each below the offset before it, and ends at 0.
RECURSIVE MarkerChain(_, _)
MarkerChain(at, k) ==
  IF k = 0 THEN at = 0
  ELSE LET slot == at - RoundedUp(SizeofLong) IN
       /\ slot >= 0
       /\ slot + SizeofLong <= Len(mem)
       /\ mem[slot + 1] = frames[k].start
       /\ mem[slot + 1] < at
       /\ MarkerChain(mem[slot + 1], k - 1)

\* C19: in every state of a stack allocator the markers chain from used
\* down to 0 in as many steps as there are live frames, each step reading
\* the offset the frame's AU_SA_Alloc stored, at a lower offset than the
\* one before.
C19_MarkerChain ==
  (kind = "SA" /\ status = "ready") => MarkerChain(used, Len(frames))

\* TRUE when c is c0 doubled some number of times, or LONG_MAX.
Doubled(c0, c) == c = LONG_MAX \/ \E k \in 0..LONG_MAX : c = c0 * 2^k

B1Discards == {"B1_DiscardAppends", "B1_DiscardLastBytes"}

\* C20: in every step of a byte builder that goes on running, cap does not
\* decrease; it changes only in AU_B1_Setup, which stores the capacity asked
\* for, and in an append that needs more than cap and succeeds, where it
\* becomes 2 * cap, or LONG_MAX if that is less; so cap is a capacity asked
\* for at setup doubled some number of times, or LONG_MAX.  A failed append
\* and a discard leave cap as it was.
C20_CapacityMonotone ==
  [][(kind' = "B1" /\ status' = "ready")
       => /\ cap' >= cap
          /\ ret'.op = "B1_Setup" => cap' = ret'.n
          /\ (ret'.op # "B1_Setup" /\ cap' # cap)
               => /\ ret'.op \in B1Appends
                  /\ ret'.res = "ok"
                  /\ used + ret'.n > cap
                  /\ cap' = IF 2 * cap < LONG_MAX THEN 2 * cap ELSE LONG_MAX
          /\ (ret'.res = "fail" \/ ret'.op \in B1Discards) => cap' = cap
          /\ \E c0 \in SetupCaps : Doubled(c0, cap')]_vars

\* An append to a byte builder that held cells doubled cap, and the builder
\* goes on running.
C20_Witness ==
  /\ kind = "B1"
  /\ status = "ready"
  /\ ret.op \in B1Appends
  /\ ret.res = "ok"
  /\ ret.pre.used > 0
  /\ ret.pre.cap > 1
  /\ cap = 2 * ret.pre.cap

====
